---- MODULE Spec2Model ----
(***************************************************************************)
(* mysqlerrgen (cmd/mysqlerrgen/main.go): the scanner of the error-message *)
(* catalog, the escape decoder, the reader of the previously generated     *)
(* constants.go and the generator of the new one.                          *)
(*                                                                         *)
(* A string is a sequence of code points (integers); a line of a file is a *)
(* string without its line terminator, as bufio.Scanner delivers it; a     *)
(* file is a sequence of lines.                                            *)
(***************************************************************************)
EXTENDS Integers, Sequences, FiniteSets, TLC

VARIABLES
    stdin,            \* the lines of the input stream delivered so far
    pos,              \* number of lines s.Scan() has returned in this run
    pc,               \* position of run(): scan, stat, create, header, emit,
                      \* close, done, error, panic, hang; call/returned for a
                      \* function applied on its own
    run,              \* number of the current invocation of the program
    defaultLanguage,  \* run(): defaultLanguage
    errorCodeOffset,  \* run(): errorCodeOffset
    rCount,           \* run(): rCount
    languages,        \* run(): languages
    errs,             \* run(): errs
    cs,               \* run(): cs, the constants read from the prior file
    file,             \* the content of <pkg>/constants.go, or NoFile
    k,                \* number of records of errs already written
    err,              \* the error run() returned, or NoErr
    prior,            \* the content of constants.go when this run started
    gen,              \* the invocations completed so far: the constants.go
                      \* each started with and the one it left
    arg,              \* argument of a function applied on its own
    ret               \* its result

vars == <<stdin, pos, pc, run, defaultLanguage, errorCodeOffset, rCount,
          languages, errs, cs, file, k, err, prior, gen, arg, ret>>

----------------------------------------------------------------------------
(* Characters and string literals *)

Printable ==
    << " ", "!", "\"", "#", "$", "%", "&", "'", "(", ")", "*", "+", ",", "-",
       ".", "/", "0", "1", "2", "3", "4", "5", "6", "7", "8", "9", ":", ";",
       "<", "=", ">", "?", "@", "A", "B", "C", "D", "E", "F", "G", "H", "I",
       "J", "K", "L", "M", "N", "O", "P", "Q", "R", "S", "T", "U", "V", "W",
       "X", "Y", "Z", "[", "\\", "]", "^", "_", "(backtick)", "a", "b", "c", "d", "e",
       "f", "g", "h", "i", "j", "k", "l", "m", "n", "o", "p", "q", "r", "s",
       "t", "u", "v", "w", "x", "y", "z", "{", "|", "}", "~" >>

\* The code point of an ASCII character.
Ord(c) ==
    IF c = "\t" THEN 9
    ELSE IF c = "\n" THEN 10
    ELSE IF c = "\r" THEN 13
    ELSE 31 + (CHOOSE i \in 1..Len(Printable) : Printable[i] = c)

\* The string whose characters are the one-character strings of the tuple t.
Lit(t) == [i \in 1..Len(t) |-> Ord(t[i])]

\* The set of the code points of the characters of the tuple t.
CharSet(t) == {Ord(t[i]) : i \in 1..Len(t)}

----------------------------------------------------------------------------
(* package strings / strconv, as far as main.go uses them *)

HasPrefix(s, p) == Len(s) >= Len(p) /\ SubSeq(s, 1, Len(p)) = p

\* strings.IndexAny: the 0-based index of the first character of s that is in
\* chars, or -1.
IndexAny(s, chars) ==
    IF \E i \in 1..Len(s) : s[i] \in chars
    THEN (CHOOSE i \in 1..Len(s) :
              s[i] \in chars /\ \A j \in 1..(i - 1) : s[j] \notin chars) - 1
    ELSE -1

\* Go's s[i:] and s[:i] for a 0-based i.
From(s, i) == SubSeq(s, i + 1, Len(s))
Upto(s, i) == SubSeq(s, 1, i)

\* strings.TrimLeft: s without its leading run of characters of cutset.
TrimLeft(s, cutset) ==
    IF \E i \in 1..Len(s) : s[i] \notin cutset
    THEN From(s, (CHOOSE i \in 1..Len(s) :
                      s[i] \notin cutset /\ \A j \in 1..(i - 1) : s[j] \in cutset) - 1)
    ELSE <<>>

RECURSIVE Split(_, _)
\* strings.Split(s, sep) for a one-character separator: always at least one
\* field, empty fields kept.
Split(s, sep) ==
    LET i == IndexAny(s, {sep})
    IN  IF i < 0 THEN <<s>> ELSE <<Upto(s, i)>> \o Split(From(s, i + 1), sep)

Digits == CharSet(<<"0", "1", "2", "3", "4", "5", "6", "7", "8", "9">>)

RECURSIVE DigitsValue(_, _)
DigitsValue(s, acc) ==
    IF s = <<>> THEN acc
    ELSE DigitsValue(Tail(s), acc * 10 + (Head(s) - Ord("0")))

\* strconv.Atoi with its error dropped, as every caller in main.go does
\* (v, _ := strconv.Atoi(s)): an optional sign and at least one decimal
\* digit give the number, anything else gives 0.  (Numbers outside the range
\* of int are not drawn.)
Atoi(s) ==
    LET signed == s /= <<>> /\ s[1] \in CharSet(<<"+", "-">>)
        body   == IF signed THEN Tail(s) ELSE s
    IN  IF body = <<>> \/ \E i \in 1..Len(body) : body[i] \notin Digits
        THEN 0
        ELSE IF signed /\ s[1] = Ord("-")
             THEN 0 - DigitsValue(body, 0)
             ELSE DigitsValue(body, 0)

RECURSIVE NatDigits(_)
NatDigits(n) ==
    IF n < 10 THEN <<Ord("0") + n>>
    ELSE Append(NatDigits(n \div 10), Ord("0") + (n % 10))

\* fmt's %v of an int: decimal, with a minus sign when negative.
Itoa(n) == IF n < 0 THEN <<Ord("-")>> \o NatDigits(0 - n) ELSE NatDigits(n)

----------------------------------------------------------------------------
(* The tokenizer *)

WordDelimiters == CharSet(<<" ", ",", "\t", "\r", "\n", "=">>)
TrimmedDelimiters == CharSet(<<" ", ",", "\t", "=">>)

\* consumeWord: <<word, rest>>.
consumeWord(s) ==
    LET i == IndexAny(s, WordDelimiters)
    IN  IF i < 0 THEN <<s, <<>>>> ELSE <<Upto(s, i), From(s, i)>>

trimDelimiters(s) == TrimLeft(s, TrimmedDelimiters)

----------------------------------------------------------------------------
(* The escape decoder *)

\* strings.Builder.WriteRune: the UTF-8 encoding of a code point below 2048.
WriteRune(r) ==
    IF r < 128 THEN <<r>> ELSE <<192 + (r \div 64), 128 + (r % 64)>>

\* byte(n) of an int n.
Byte(n) == n % 256

OctalDigits == CharSet(<<"0", "1", "2", "3", "4", "5", "6", "7">>)

RECURSIVE octalLoop(_, _, _, _)
\* The inner loop of parseQuoted, for j := 0; j < 3 && i < len(r); i, j =
\* i+1, j+1, from 0-based index i with j digits taken and value n so far:
\* the index and the value it ends with.  Its early exit tests
\* r[i] < '0' && '7' < r[i].
octalLoop(r, i, j, n) ==
    IF j < 3 /\ i < Len(r)
    THEN IF r[i + 1] < Ord("0") /\ Ord("7") < r[i + 1]
         THEN [i |-> i - 1, n |-> n]
         ELSE octalLoop(r, i + 1, j + 1, n * 8 + (r[i + 1] - Ord("0")))
    ELSE [i |-> i, n |-> n]

RECURSIVE quotedLoopLenient(_, _, _)
\* quotedLoop returning what it has decoded at the end of the string, where
\* line 235 reports the error.
quotedLoopLenient(r, i, b) ==
    IF i >= Len(r) THEN [text |-> b, err |-> "nil"]
    ELSE IF r[i + 1] = Ord("\"") THEN [text |-> b, err |-> "nil"]
    ELSE IF r[i + 1] = Ord("\\") /\ i + 1 < Len(r)
    THEN LET c == r[i + 2]
         IN  IF c = Ord("n") THEN quotedLoopLenient(r, i + 2, b \o <<10>>)
             ELSE IF c \in OctalDigits
             THEN LET o == octalLoop(r, i + 1, 0, 0)
                  IN  quotedLoopLenient(r, o.i + 1, Append(b, Byte(o.n)))
             ELSE quotedLoopLenient(r, i + 2, b \o WriteRune(c))
    ELSE quotedLoopLenient(r, i + 1, b \o WriteRune(r[i + 1]))

RECURSIVE quotedLoop(_, _, _)
\* The outer loop of parseQuoted, for i := 0; i < len(r); i++, entered at
\* 0-based index i with b written so far.
quotedLoop(r, i, b) ==
    IF i >= Len(r) THEN [text |-> <<>>, err |-> "unexpected EOL"]
    ELSE IF r[i + 1] = Ord("\"") THEN [text |-> b, err |-> "nil"]
    ELSE IF r[i + 1] = Ord("\\") /\ i + 1 < Len(r)
    THEN LET c == r[i + 2]
         IN  IF c = Ord("n") THEN quotedLoop(r, i + 2, b \o <<10>>)
             ELSE IF c \in OctalDigits
             THEN LET o == octalLoop(r, i + 1, 0, 0)
                  IN  quotedLoop(r, o.i + 1, Append(b, Byte(o.n)))
             ELSE quotedLoop(r, i + 2, b \o WriteRune(c))
    ELSE quotedLoop(r, i + 1, b \o WriteRune(r[i + 1]))

\* parseQuoted(s): the decoded bytes and the error ("nil" when there is none).
parseQuoted(s) == quotedLoop(s, 0, <<>>)

----------------------------------------------------------------------------
(* The string literals of main.go *)

KwLanguage ==
    Lit(<<"l", "a", "n", "g", "u", "a", "g", "e">>)

KwStartErrorNumber ==
    Lit(<<"s", "t", "a", "r", "t", "-", "e", "r", "r", "o", "r", "-", "n",
        "u", "m", "b", "e", "r">>)

KwDefaultLanguage ==
    Lit(<<"d", "e", "f", "a", "u", "l", "t", "-", "l", "a", "n", "g", "u",
        "a", "g", "e">>)

KwReservedErrorSection ==
    Lit(<<"r", "e", "s", "e", "r", "v", "e", "d", "-", "e", "r", "r", "o",
        "r", "-", "s", "e", "c", "t", "i", "o", "n">>)

PrefixER ==
    Lit(<<"E", "R", "_">>)

PrefixWARN ==
    Lit(<<"W", "A", "R", "N", "_">>)

PrefixOBSOLETE_ER ==
    Lit(<<"O", "B", "S", "O", "L", "E", "T", "E", "_", "E", "R", "_">>)

PrefixOBSOLETE_WARN ==
    Lit(<<"O", "B", "S", "O", "L", "E", "T", "E", "_", "W", "A", "R", "N",
        "_">>)

PrefixOBSOLETE ==
    Lit(<<"O", "B", "S", "O", "L", "E", "T", "E", "_">>)

PrefixConst ==
    Lit(<<"c", "o", "n", "s", "t", " ">>)

\* "eng", the initial defaultLanguage
Eng ==
    Lit(<<"e", "n", "g">>)

DoNotEdit ==
    Lit(<<"/", "/", " ", "C", "o", "d", "e", " ", "g", "e", "n", "e", "r",
        "a", "t", "e", "d", " ", "m", "y", "s", "q", "l", "e", "r", "r", "g",
        "e", "n", " ", "D", "O", " ", "N", "O", "T", " ", "E", "D", "I", "T",
        ".">>)

LicenseLine1 ==
    Lit(<<"/", "/", " ", "C", "o", "p", "y", "r", "i", "g", "h", "t", " ",
        "2", "0", "2", "1", "-", "2", "0", "2", "3", " ", "N", "a", "o", " ",
        "Y", "o", "n", "a", "s", "h", "i", "r", "o", " ">>)

LicenseLine2 ==
    Lit(<<"/", "/", " ">>)

\* "package" and the value of -pkg, here mysqlerr
PackageLine ==
    Lit(<<"p", "a", "c", "k", "a", "g", "e", " ", "m", "y", "s", "q", "l",
        "e", "r", "r">>)

DeprecatedMarker ==
    Lit(<<"/", "/", " ", "D", "e", "p", "r", "e", "c", "a", "t", "e", "d",
        ":", " ", "s", "h", "o", "u", "l", "d", " ", "n", "o", "t", " ", "b",
        "e", " ", "u", "s", "e", "d">>)

WordConst ==
    Lit(<<"c", "o", "n", "s", "t">>)

WordEquals ==
    Lit(<<"=">>)

----------------------------------------------------------------------------
(* Lines of the input and of the prior constants.go that the specifications draw from *)

LineER_NEW ==
    Lit(<<"E", "R", "_", "N", "E", "W">>)

LineER_OLD ==
    Lit(<<"E", "R", "_", "O", "L", "D">>)

LineWARN ==
    Lit(<<"W", "A", "R", "N", "_", "X", " ", "0", "1", "0", "0", "0">>)

LineOBSOLETE_ER ==
    Lit(<<"O", "B", "S", "O", "L", "E", "T", "E", "_", "E", "R", "_", "Y",
        " ", "4", "2", "0", "0", "0", " ", "S", "1", "0", "0", "9">>)

LineOBSOLETE_WARN ==
    Lit(<<"O", "B", "S", "O", "L", "E", "T", "E", "_", "W", "A", "R", "N",
        "_", "Z">>)

LineStart1051 ==
    Lit(<<"s", "t", "a", "r", "t", "-", "e", "r", "r", "o", "r", "-", "n",
        "u", "m", "b", "e", "r", " ", "1", "0", "5", "1">>)

LineStart1000 ==
    Lit(<<"s", "t", "a", "r", "t", "-", "e", "r", "r", "o", "r", "-", "n",
        "u", "m", "b", "e", "r", " ", "1", "0", "0", "0">>)

LineStartExtra ==
    Lit(<<"s", "t", "a", "r", "t", "-", "e", "r", "r", "o", "r", "-", "n",
        "u", "m", "b", "e", "r", " ", "1", "0", "0", "0", " ", "e", "x", "t",
        "r", "a">>)

LineDefault ==
    Lit(<<"d", "e", "f", "a", "u", "l", "t", "-", "l", "a", "n", "g", "u",
        "a", "g", "e", " ", "e", "n", "g">>)

LineDefaultExtra ==
    Lit(<<"d", "e", "f", "a", "u", "l", "t", "-", "l", "a", "n", "g", "u",
        "a", "g", "e", " ", "g", "e", "r", " ", "x">>)

LineLanguages ==
    Lit(<<"l", "a", "n", "g", "u", "a", "g", "e", "s", " ", "e", "n", "g",
        "l", "i", "s", "h", "=", "e", "n", "g", " ", "l", "a", "t", "i", "n",
        "1", ",", " ", "g", "e", "r", "m", "a", "n", "=", "g", "e", "r", " ",
        "l", "a", "t", "i", "n", "1", ";">>)

LineLanguagesCR ==
    Lit(<<"l", "a", "n", "g", "u", "a", "g", "e", " ", "x", "\r">>)

LineComment ==
    Lit(<<"#", " ", "c">>)

LineReserved ==
    Lit(<<"r", "e", "s", "e", "r", "v", "e", "d", "-", "e", "r", "r", "o",
        "r", "-", "s", "e", "c", "t", "i", "o", "n", " ", "1", " ", "2">>)

LineMessage ==
    Lit(<<"\t", "f", "o", "o", " ", "\"", "h", "e", "l", "l", "o", "\"">>)


LineMessageNoQuote ==
    Lit(<<"\t", "e", "n", "g", " ", "h", "e", "l", "l", "o">>)

LineMessageOpen ==
    Lit(<<"\t", "e", "n", "g", " ", "\"", "m", "i", "s", "s", "i", "n", "g",
        " ", "c", "l", "o", "s", "e", " ", "q", "u", "o", "t", "e">>)

LineMessageEscapedEnd ==
    Lit(<<"\t", "e", "n", "g", " ", "\"", "a", "\\", "\"">>)

LineMessageOctal ==
    Lit(<<"\t", "e", "n", "g", " ", "\"", "\\", "1", "0", "1", "\"">>)

LineUnknown ==
    Lit(<<"f", "o", "o">>)

PriorOld1051 ==
    Lit(<<"c", "o", "n", "s", "t", " ", "E", "R", "_", "O", "L", "D", " ",
        "=", " ", "1", "0", "5", "1">>)

PriorOld1000 ==
    Lit(<<"c", "o", "n", "s", "t", " ", "E", "R", "_", "O", "L", "D", " ",
        "=", " ", "1", "0", "0", "0">>)

PriorNew1000 ==
    Lit(<<"c", "o", "n", "s", "t", " ", "E", "R", "_", "N", "E", "W", " ",
        "=", " ", "1", "0", "0", "0">>)

PriorComment ==
    Lit(<<"/", "/", " ", "x">>)

PriorShort ==
    Lit(<<"c", "o", "n", "s", "t", " ", "E", "R", "_", "O", "L", "D">>)

NameER_OLD ==
    Lit(<<"E", "R", "_", "O", "L", "D">>)

NameER_NEW ==
    Lit(<<"E", "R", "_", "N", "E", "W">>)

PriorNonInteger ==
    Lit(<<"c", "o", "n", "s", "t", " ", "E", "R", "_", "O", "L", "D", " ", "=",
        " ", "x">>)

LineUnknownER ==
    Lit(<<"E", "R", " ", "x">>)

----------------------------------------------------------------------------
(* The language declaration *)

RECURSIVE languageLoop(_, _)
\* The loop of parseLanguage on the remaining text s with the languages
\* parsed so far.  Every iteration computes the next s from s alone, as a
\* suffix of it: an iteration that leaves s as it was is followed by the same
\* iteration for ever, and the call does not return (returns = FALSE).
languageLoop(s, langs) ==
    IF HasPrefix(s, Lit(<<";">>)) \/ s = <<>>
    THEN [languages |-> langs, returns |-> TRUE]
    ELSE LET w1 == consumeWord(s)
             w2 == consumeWord(trimDelimiters(w1[2]))
             w3 == consumeWord(trimDelimiters(w2[2]))
             s2 == trimDelimiters(w3[2])
             l  == [longName |-> w1[1], shortName |-> w2[1], charset |-> w3[1]]
         IN  IF s2 = s
             THEN [languages |-> langs, returns |-> FALSE]
             ELSE languageLoop(s2, Append(langs, l))

parseLanguage(s) == languageLoop(trimDelimiters(consumeWord(s)[2]), <<>>)

----------------------------------------------------------------------------
(* The constants of the prior constants.go *)

\* constants.go: absent, or present with the lines it holds.
NoFile == [exists |-> FALSE, lines |-> <<>>]
File(lines) == [exists |-> TRUE, lines |-> lines]

EmptyConstants == [byName |-> <<>>, byCode |-> <<>>]

\* constants.add
add(c, name, code) ==
    [byName |-> [n \in DOMAIN c.byName \cup {name} |->
                    IF n = name THEN code ELSE c.byName[n]],
     byCode |-> [d \in DOMAIN c.byCode \cup {code} |->
                    IF d = code
                    THEN Append(IF code \in DOMAIN c.byCode
                                THEN c.byCode[code] ELSE <<>>, name)
                    ELSE c.byCode[d]]]

\* c.byCode[code] of a Go map: the empty list when the key is absent.
byCodeOf(c, code) == IF code \in DOMAIN c.byCode THEN c.byCode[code] ELSE <<>>

RECURSIVE deprecatesLoop(_, _, _)
deprecatesLoop(names, name, code) ==
    IF names = <<>> THEN <<>>
    ELSE IF Head(names) = name
    THEN deprecatesLoop(Tail(names), name, code)
    ELSE <<[name |-> Head(names), code |-> code]>>
             \o deprecatesLoop(Tail(names), name, code)

\* deprecates without the test n == name of line 268.
deprecatesAll(c, name, code) ==
    [i \in 1..Len(byCodeOf(c, code)) |->
        [name |-> byCodeOf(c, code)[i], code |-> code]]

\* constants.deprecates
deprecates(c, name, code) == deprecatesLoop(byCodeOf(c, code), name, code)

RECURSIVE constantsLoop(_, _)
\* The scanning loop of parseConstantsGo over the lines left, with the
\* constants c added so far.  tokens[3] of a line with fewer than four
\* tokens is an index out of range: the program panics.
constantsLoop(lines, c) ==
    IF lines = <<>> THEN [constants |-> c, panics |-> FALSE]
    ELSE IF ~HasPrefix(Head(lines), PrefixConst)
    THEN constantsLoop(Tail(lines), c)
    ELSE LET tokens == Split(Head(lines), Ord(" "))
         IN  IF Len(tokens) < 4
             THEN [constants |-> c, panics |-> TRUE]
             ELSE constantsLoop(Tail(lines),
                                add(c, tokens[2], Atoi(tokens[4])))

\* parseConstantsGo on the lines of a file that exists and opens.
parseConstantsGo(lines) == constantsLoop(lines, EmptyConstants)

\* fmt.Fprintln(f, "const", name, "=", code): the operands separated by spaces.
constLine(name, code) ==
    WordConst \o <<Ord(" ")>> \o name \o <<Ord(" ")>> \o WordEquals
        \o <<Ord(" ")>> \o Itoa(code)

RECURSIVE deprecatedLinesMarkerOnly(_)
\* deprecatedLines with the marker written and the declaration left out.
deprecatedLinesMarkerOnly(ds) ==
    IF ds = <<>> THEN <<>>
    ELSE <<DeprecatedMarker>> \o deprecatedLinesMarkerOnly(Tail(ds))

RECURSIVE deprecatedLines(_)
\* Lines 158-161 of run(): a marker and a declaration for each deprecated name.
deprecatedLines(ds) ==
    IF ds = <<>> THEN <<>>
    ELSE <<DeprecatedMarker, constLine(Head(ds).name, Head(ds).code)>>
             \o deprecatedLines(Tail(ds))

\* What lines 154-156 write: the marker, the license (its first two lines
\* stand for the whole text, every line of which begins with //) and the
\* package clause.
headerLines == <<DoNotEdit, LicenseLine1, LicenseLine2, PackageLine>>

----------------------------------------------------------------------------
(* Bounds *)

\* The longest input stream of Spec, in lines.
MaxLines == 3
\* The longest input stream of SpecRegen, in lines.
MaxRegenLines == 4
\* The number of invocations of the program in SpecRegen.
MaxRuns == 2
\* The longest argument of parseQuoted in SpecQuoted, in characters.
MaxQuoted == 5

----------------------------------------------------------------------------
(* run() *)

InitialOffset == 1000

NoErr == [msg |-> "nil", line |-> <<>>, cause |-> "nil"]

SpaceTab == CharSet(<<" ", "\t">>)

\* The switch of line 67: the first case whose condition holds.
Kind(line) ==
    IF HasPrefix(line, KwLanguage) THEN "language"
    ELSE IF HasPrefix(line, KwStartErrorNumber) THEN "start-error-number"
    ELSE IF HasPrefix(line, KwDefaultLanguage) THEN "default-language"
    ELSE IF HasPrefix(line, <<Ord("\t")>>) \/ HasPrefix(line, <<Ord(" ")>>)
    THEN "message"
    ELSE IF \/ HasPrefix(line, PrefixER)
            \/ HasPrefix(line, PrefixWARN)
            \/ HasPrefix(line, PrefixOBSOLETE_ER)
            \/ HasPrefix(line, PrefixOBSOLETE_WARN)
    THEN "header"
    ELSE IF HasPrefix(line, <<Ord("#")>>) \/ line = <<>> THEN "comment"
    ELSE IF HasPrefix(line, KwReservedErrorSection) THEN "reserved"
    ELSE "unknown"

\* s.Scan() returns the line: the next one of the stream, which this
\* invocation is the first to read when it was not delivered before.
Scanned(line) ==
    /\ pc = "scan"
    /\ pos' = pos + 1
    /\ stdin' = IF pos < Len(stdin) THEN stdin ELSE Append(stdin, line)

\* The lines s.Scan() may return next when new lines are drawn from L and the
\* stream holds at most max lines.
Offered(L, max) ==
    IF pos < Len(stdin) THEN {stdin[pos + 1]}
    ELSE IF run = 1 /\ Len(stdin) < max THEN L
    ELSE {}

\* trailingText as it was before the format errors were returned: text left
\* after the argument is ignored.
trailingTextIgnored(rest) == FALSE

\* Lines 74 and 83: the test for text left after the argument.
trailingText(rest) == rest /= <<>>

\* nextErrorCode with the running count left out.
nextErrorCodeStale(offset, count) == offset

\* Line 115: the code of the next record.
nextErrorCode(offset, count) == offset + count

\* return fmt.Errorf(...)
Fail(msg, line, cause) ==
    /\ pc' = "error"
    /\ err' = [msg |-> msg, line |-> line, cause |-> cause]

ScanLanguage(line) ==
    /\ Kind(line) = "language"
    /\ Scanned(line)
    /\ LET p == parseLanguage(line)
       IN  IF p.returns
           THEN /\ languages' = p.languages
                /\ pc' = pc
           ELSE /\ languages' = languages
                /\ pc' = "hang"
    /\ UNCHANGED <<run, defaultLanguage, errorCodeOffset, rCount, errs, cs,
                   file, k, err, prior, gen, arg, ret>>

\* ScanStartErrorNumber without line 78: the running count is kept.
ScanStartErrorNumberNoReset(line) ==
    /\ Kind(line) = "start-error-number"
    /\ Scanned(line)
    /\ LET w == consumeWord(trimDelimiters(consumeWord(line)[2]))
       IN  IF trailingText(w[2])
           THEN /\ Fail("invalid format", line, "nil")
                /\ UNCHANGED errorCodeOffset
           ELSE /\ errorCodeOffset' = Atoi(w[1])
                /\ UNCHANGED <<pc, err>>
    /\ UNCHANGED <<run, defaultLanguage, rCount, languages, errs, cs, file, k,
                   prior, gen, arg, ret>>

ScanStartErrorNumber(line) ==
    /\ Kind(line) = "start-error-number"
    /\ Scanned(line)
    /\ LET w == consumeWord(trimDelimiters(consumeWord(line)[2]))
           offsetStr == w[1]
           rest == w[2]
       IN  IF trailingText(rest)
           THEN /\ Fail("invalid format", line, "nil")
                /\ UNCHANGED <<errorCodeOffset, rCount>>
           ELSE /\ errorCodeOffset' = Atoi(offsetStr)
                /\ rCount' = 0
                /\ UNCHANGED <<pc, err>>
    /\ UNCHANGED <<run, defaultLanguage, languages, errs, cs, file, k, prior,
                   gen, arg, ret>>

ScanDefaultLanguage(line) ==
    /\ Kind(line) = "default-language"
    /\ Scanned(line)
    /\ LET w == consumeWord(trimDelimiters(consumeWord(line)[2]))
           shortName == w[1]
           rest == w[2]
       IN  IF trailingText(rest)
           THEN /\ Fail("invalid format", line, "nil")
                /\ UNCHANGED defaultLanguage
           ELSE /\ defaultLanguage' = shortName
                /\ UNCHANGED <<pc, err>>
    /\ UNCHANGED <<run, errorCodeOffset, rCount, languages, errs, cs, file, k,
                   prior, gen, arg, ret>>

\* errs[len(errs)-1] of an empty errs is an index out of range: the program
\* panics.
ScanMessage(line) ==
    /\ Kind(line) = "message"
    /\ Scanned(line)
    /\ LET l1 == TrimLeft(line, SpaceTab)
           i  == IndexAny(l1, SpaceTab)
           langShortName == IF i >= 0 THEN Upto(l1, i) ELSE l1
           l2 == TrimLeft(IF i >= 0 THEN From(l1, i) ELSE <<>>, SpaceTab)
       IN  IF ~HasPrefix(l2, <<Ord("\"")>>)
           THEN /\ Fail("unexpected EOL", line, "nil")
                /\ UNCHANGED errs
           ELSE LET q == parseQuoted(Tail(l2))
                IN  IF q.err /= "nil"
                    THEN /\ Fail("parse quote", line, q.err)
                         /\ UNCHANGED errs
                    ELSE IF Len(errs) = 0
                    THEN /\ pc' = "panic"
                         /\ UNCHANGED <<errs, err>>
                    ELSE /\ errs' = [errs EXCEPT ![Len(errs)].messages =
                                        Append(@, [langShortName |-> langShortName,
                                                   text |-> q.text])]
                         /\ UNCHANGED <<pc, err>>
    /\ UNCHANGED <<run, defaultLanguage, errorCodeOffset, rCount, languages,
                   cs, file, k, prior, gen, arg, ret>>

ScanHeader(line) ==
    /\ Kind(line) = "header"
    /\ Scanned(line)
    /\ LET w1 == consumeWord(line)
           w2 == consumeWord(trimDelimiters(w1[2]))
           w3 == consumeWord(trimDelimiters(w2[2]))
           errorCode == nextErrorCode(errorCodeOffset, rCount)
       IN  /\ rCount' = rCount + 1
           /\ errs' = Append(errs, [name      |-> w1[1],
                                    code      |-> errorCode,
                                    sqlState  |-> w2[1],
                                    odbcState |-> w3[1],
                                    messages  |-> <<>>,
                                    obsolete  |-> HasPrefix(w1[1], PrefixOBSOLETE)])
    /\ UNCHANGED <<pc, run, defaultLanguage, errorCodeOffset, languages, cs,
                   file, k, err, prior, gen, arg, ret>>

\* ScanComment with the running count taking every line scanned.
ScanCommentCounted(line) ==
    /\ Kind(line) = "comment"
    /\ Scanned(line)
    /\ rCount' = rCount + 1
    /\ UNCHANGED <<pc, run, defaultLanguage, errorCodeOffset, languages, errs,
                   cs, file, k, err, prior, gen, arg, ret>>

ScanComment(line) ==
    /\ Kind(line) = "comment"
    /\ Scanned(line)
    /\ UNCHANGED <<pc, run, defaultLanguage, errorCodeOffset, rCount,
                   languages, errs, cs, file, k, err, prior, gen, arg, ret>>

ScanReserved(line) ==
    /\ Kind(line) = "reserved"
    /\ Scanned(line)
    /\ UNCHANGED <<pc, run, defaultLanguage, errorCodeOffset, rCount,
                   languages, errs, cs, file, k, err, prior, gen, arg, ret>>

\* ScanUnknown with the line skipped like a comment, where line 129 returns
\* the error.
ScanUnknownSkipped(line) ==
    /\ Kind(line) = "unknown"
    /\ Scanned(line)
    /\ UNCHANGED <<pc, run, defaultLanguage, errorCodeOffset, rCount,
                   languages, errs, cs, file, k, err, prior, gen, arg, ret>>

ScanUnknown(line) ==
    /\ Kind(line) = "unknown"
    /\ Scanned(line)
    /\ Fail("unknown format", line, "nil")
    /\ UNCHANGED <<run, defaultLanguage, errorCodeOffset, rCount, languages,
                   errs, cs, file, k, prior, gen, arg, ret>>

\* s.Scan() returns false at the end of the stream; os.MkdirAll succeeds.
EndOfInput ==
    /\ pc = "scan"
    /\ pos = Len(stdin)
    /\ pc' = "stat"
    /\ UNCHANGED <<stdin, pos, run, defaultLanguage, errorCodeOffset, rCount,
                   languages, errs, cs, file, k, err, prior, gen, arg, ret>>

\* Lines 139-146: the constants of the prior constants.go when there is one.
ReadPrior ==
    /\ pc = "stat"
    /\ IF ~file.exists
       THEN /\ cs' = EmptyConstants
            /\ pc' = "create"
       ELSE LET p == parseConstantsGo(file.lines)
            IN  IF p.panics
                THEN /\ pc' = "panic"
                     /\ cs' = cs
                ELSE /\ cs' = p.constants
                     /\ pc' = "create"
    /\ UNCHANGED <<stdin, pos, run, defaultLanguage, errorCodeOffset, rCount,
                   languages, errs, file, k, err, prior, gen, arg, ret>>

\* os.Create: the file exists and is empty.
Create ==
    /\ pc = "create"
    /\ file' = File(<<>>)
    /\ pc' = "header"
    /\ UNCHANGED <<stdin, pos, run, defaultLanguage, errorCodeOffset, rCount,
                   languages, errs, cs, k, err, prior, gen, arg, ret>>

WriteHeader ==
    /\ pc = "header"
    /\ file' = File(file.lines \o headerLines)
    /\ k' = 0
    /\ pc' = "emit"
    /\ UNCHANGED <<stdin, pos, run, defaultLanguage, errorCodeOffset, rCount,
                   languages, errs, cs, err, prior, gen, arg, ret>>

\* EmitRecord with no declaration written for an obsolete record.
EmitRecordSkipsObsolete ==
    /\ pc = "emit"
    /\ k < Len(errs)
    /\ LET mysqlErr == errs[k + 1]
       IN  file' = IF mysqlErr.obsolete THEN file
                   ELSE File(file.lines
                     \o deprecatedLines(deprecates(cs, mysqlErr.name, mysqlErr.code))
                     \o <<constLine(mysqlErr.name, mysqlErr.code)>>)
    /\ k' = k + 1
    /\ UNCHANGED <<stdin, pos, pc, run, defaultLanguage, errorCodeOffset,
                   rCount, languages, errs, cs, err, prior, gen, arg, ret>>

\* One iteration of the loop of line 157.
EmitRecord ==
    /\ pc = "emit"
    /\ k < Len(errs)
    /\ LET mysqlErr == errs[k + 1]
       IN  file' = File(file.lines
                     \o deprecatedLines(deprecates(cs, mysqlErr.name, mysqlErr.code))
                     \o <<constLine(mysqlErr.name, mysqlErr.code)>>)
    /\ k' = k + 1
    /\ UNCHANGED <<stdin, pos, pc, run, defaultLanguage, errorCodeOffset,
                   rCount, languages, errs, cs, err, prior, gen, arg, ret>>

\* f.Close() and return nil.
Close ==
    /\ pc = "emit"
    /\ k = Len(errs)
    /\ pc' = "done"
    /\ gen' = Append(gen, [prior |-> prior, output |-> file])
    /\ UNCHANGED <<stdin, pos, run, defaultLanguage, errorCodeOffset, rCount,
                   languages, errs, cs, file, k, err, prior, arg, ret>>

\* The program is run again on the same input, with the constants.go the
\* last run left.
Regenerate ==
    /\ pc = "done"
    /\ run < MaxRuns
    /\ run' = run + 1
    /\ pos' = 0
    /\ pc' = "scan"
    /\ defaultLanguage' = Eng
    /\ errorCodeOffset' = InitialOffset
    /\ rCount' = 0
    /\ languages' = <<>>
    /\ errs' = <<>>
    /\ cs' = EmptyConstants
    /\ k' = 0
    /\ prior' = file
    /\ UNCHANGED <<stdin, file, err, gen, arg, ret>>

\* Locals with os.Create called before the input is scanned.
LocalsCreatedFirst(f) ==
    /\ stdin = <<>>
    /\ pos = 0
    /\ run = 1
    /\ defaultLanguage = Eng
    /\ errorCodeOffset = InitialOffset
    /\ rCount = 0
    /\ languages = <<>>
    /\ errs = <<>>
    /\ cs = EmptyConstants
    /\ file = File(<<>>)
    /\ k = 0
    /\ err = NoErr
    /\ prior = f
    /\ gen = <<>>

\* The variables of run() as lines 59-64 initialise them, at the first
\* invocation, with constants.go holding f (or absent).
Locals(f) ==
    /\ stdin = <<>>
    /\ pos = 0
    /\ run = 1
    /\ defaultLanguage = Eng
    /\ errorCodeOffset = InitialOffset
    /\ rCount = 0
    /\ languages = <<>>
    /\ errs = <<>>
    /\ cs = EmptyConstants
    /\ file = f
    /\ k = 0
    /\ err = NoErr
    /\ prior = f
    /\ gen = <<>>

\* The state run() starts in.
Start(f) ==
    /\ Locals(f)
    /\ pc = "scan"
    /\ arg = <<>>
    /\ ret = "none"

----------------------------------------------------------------------------
(* Spec: one run over every kind of line *)

Lines ==
    {LineER_NEW, LineWARN, LineOBSOLETE_ER, LineOBSOLETE_WARN, LineStart1051,
     LineStart1000, LineStartExtra, LineDefault, LineDefaultExtra,
     LineLanguages, LineLanguagesCR, LineComment, <<>>, LineReserved,
     LineMessage, LineMessageNoQuote, LineMessageOpen, LineMessageEscapedEnd,
     LineMessageOctal, LineUnknown, LineUnknownER}

Init == \E f \in {NoFile, File(<<PriorOld1051>>)} : Start(f)

Next ==
    \/ \E line \in Offered(Lines, MaxLines) : ScanLanguage(line)
    \/ \E line \in Offered(Lines, MaxLines) : ScanStartErrorNumber(line)
    \/ \E line \in Offered(Lines, MaxLines) : ScanDefaultLanguage(line)
    \/ \E line \in Offered(Lines, MaxLines) : ScanMessage(line)
    \/ \E line \in Offered(Lines, MaxLines) : ScanHeader(line)
    \/ \E line \in Offered(Lines, MaxLines) : ScanComment(line)
    \/ \E line \in Offered(Lines, MaxLines) : ScanReserved(line)
    \/ \E line \in Offered(Lines, MaxLines) : ScanUnknown(line)
    \/ EndOfInput
    \/ ReadPrior
    \/ Create
    \/ WriteHeader
    \/ EmitRecord
    \/ Close

Spec == Init /\ [][Next]_vars

----------------------------------------------------------------------------
(* SpecRegen: the program run twice on an input of headers and offsets *)

RegenLines == {LineER_NEW, LineER_OLD, LineStart1051}

PriorFiles ==
    {NoFile, File(<<PriorOld1051>>),
     File(<<PriorComment, PriorOld1000, PriorNew1000>>), File(<<PriorShort>>),
     File(<<PriorNonInteger>>)}

InitRegen == \E f \in PriorFiles : Start(f)

NextRegen ==
    \/ \E line \in Offered(RegenLines, MaxRegenLines) : ScanStartErrorNumber(line)
    \/ \E line \in Offered(RegenLines, MaxRegenLines) : ScanHeader(line)
    \/ EndOfInput
    \/ ReadPrior
    \/ Create
    \/ WriteHeader
    \/ EmitRecord
    \/ Close
    \/ Regenerate

SpecRegen == InitRegen /\ [][NextRegen]_vars

----------------------------------------------------------------------------
(* SpecQuoted: parseQuoted applied to every short string *)

QuotedAlphabet == CharSet(<<"\\", "\"", "1", "0", "7", "x", "n">>)

RECURSIVE StringsUpTo(_, _)
StringsUpTo(A, n) ==
    IF n = 0 THEN {<<>>}
    ELSE LET S == StringsUpTo(A, n - 1)
         IN  S \cup {Append(s, c) : s \in S, c \in A}

InitQuoted ==
    /\ Locals(NoFile)
    /\ pc = "call"
    /\ arg \in StringsUpTo(QuotedAlphabet, MaxQuoted)
    /\ ret = "none"

CallParseQuoted ==
    /\ pc = "call"
    /\ ret' = parseQuoted(arg)
    /\ pc' = "returned"
    /\ UNCHANGED <<stdin, pos, run, defaultLanguage, errorCodeOffset, rCount,
                   languages, errs, cs, file, k, err, prior, gen, arg>>

NextQuoted == CallParseQuoted

SpecQuoted == InitQuoted /\ [][NextQuoted]_vars

----------------------------------------------------------------------------
(* Notions of the specification that the properties are stated with *)

IsHeaderLine(line) ==
    \/ HasPrefix(line, PrefixER)
    \/ HasPrefix(line, PrefixWARN)
    \/ HasPrefix(line, PrefixOBSOLETE_ER)
    \/ HasPrefix(line, PrefixOBSOLETE_WARN)

IsStartLine(line) == HasPrefix(line, KwStartErrorNumber)

IsContinuationLine(line) ==
    HasPrefix(line, <<Ord(" ")>>) \/ HasPrefix(line, <<Ord("\t")>>)

\* The line that declares the offset K.
StartLine(K) == KwStartErrorNumber \o <<Ord(" ")>> \o Itoa(K)

\* The offsets the specifications declare.
Offsets == {1000, 1051}

\* The number of error-header lines among the first n lines scanned.
HeadersIn(n) == Cardinality({i \in 1..n : IsHeaderLine(stdin[i])})

RECURSIVE Fields(_)
\* The tokens of a line: its maximal runs of characters that are no delimiter.
Fields(s) ==
    LET t == TrimLeft(s, WordDelimiters)
        i == IndexAny(t, WordDelimiters)
    IN  IF t = <<>> THEN <<>>
        ELSE IF i < 0 THEN <<t>>
        ELSE <<Upto(t, i)>> \o Fields(From(t, i))

----------------------------------------------------------------------------
(* C1 *)

\* C1: in an input stream with no start-error-number line, the N-th
\* error-header line scanned gets the code 1000 + (N-1), whatever other lines
\* are interleaved, so the codes of the catalog are pairwise distinct and
\* strictly increasing in catalog order.
C1_HeaderCodesFromInitialOffset ==
    (\A i \in 1..pos : ~IsStartLine(stdin[i])) =>
        /\ Len(errs) = HeadersIn(pos)
        /\ \A n \in 1..Len(errs) : errs[n].code = 1000 + (n - 1)
        /\ \A m, n \in 1..Len(errs) : m < n => errs[m].code < errs[n].code

\* Two headers with another valid line between them, and no offset line.
C1_Witness ==
    /\ pos = 3
    /\ \A i \in 1..pos : ~IsStartLine(stdin[i])
    /\ IsHeaderLine(stdin[1])
    /\ ~IsHeaderLine(stdin[2])
    /\ IsHeaderLine(stdin[3])
    /\ Len(errs) = 2
    /\ errs[2].code = 1001

----------------------------------------------------------------------------
(* C2 *)

\* C2: after a start-error-number line with the integer argument K is
\* scanned, the offset is K and the running counter is 0: the j-th header
\* scanned after it, before any further redeclaration, gets K + (j-1),
\* however many headers preceded the redeclaration.
C2_OffsetRedeclarationResetsCount ==
    \A s \in 1..pos : \A K \in Offsets :
        (stdin[s] = StartLine(K) /\ \A i \in (s + 1)..pos : ~IsStartLine(stdin[i])) =>
            /\ errorCodeOffset = K
            /\ rCount = HeadersIn(pos) - HeadersIn(s)
            /\ Len(errs) = HeadersIn(pos)
            /\ \A j \in 1..(HeadersIn(pos) - HeadersIn(s)) :
                   errs[HeadersIn(s) + j].code = K + (j - 1)

\* A header, the redeclaration of the offset as 1051, and a header that gets
\* 1051.
C2_Witness ==
    /\ pos = 3
    /\ IsHeaderLine(stdin[1])
    /\ stdin[2] = StartLine(1051)
    /\ IsHeaderLine(stdin[3])
    /\ Len(errs) = 2
    /\ errs[1].code = 1000
    /\ errs[2].code = 1051

----------------------------------------------------------------------------
(* C3 *)

\* The names the records and the prior files of the specifications use.
Names == {NameER_OLD, NameER_NEW}

\* The declaration lines of a file f for the code: the names n of its lines
\* "const n = code", in the order of the file.
RECURSIVE DeclaredFor(_, _)
DeclaredFor(lines, code) ==
    IF lines = <<>> THEN <<>>
    ELSE LET here == {n \in Names : Head(lines) = constLine(n, code)}
         IN  (IF here = {} THEN <<>> ELSE <<CHOOSE n \in here : TRUE>>)
                 \o DeclaredFor(Tail(lines), code)

RECURSIVE AliasBlock(_, _, _)
\* A deprecation marker and a declaration for each of the names but own.
AliasBlock(names, own, code) ==
    IF names = <<>> THEN <<>>
    ELSE (IF Head(names) = own THEN <<>>
          ELSE <<DeprecatedMarker, constLine(Head(names), code)>>)
             \o AliasBlock(Tail(names), own, code)

RECURSIVE Declarations(_, _)
\* What the claim has the generator emit for the records, given the lines of
\* the prior file: for each record its aliases, then its own declaration.
Declarations(records, priorLines) ==
    IF records = <<>> THEN <<>>
    ELSE LET r == Head(records)
         IN  AliasBlock(DeclaredFor(priorLines, r.code), r.name, r.code)
                 \o <<constLine(r.name, r.code)>>
                 \o Declarations(Tail(records), priorLines)

\* The file holds the three lines at l, l+1 and l+2.
Consecutive(f, l, a, b, c) ==
    /\ l + 2 <= Len(f.lines)
    /\ f.lines[l] = a
    /\ f.lines[l + 1] = b
    /\ f.lines[l + 2] = c

\* C3: for each record in catalog order the generator emits, immediately
\* before the record's own declaration, a declaration preceded by a
\* deprecation marker for every other name the prior file declares with the
\* record's code, in the prior order, then the record's own declaration
\* without a marker.  A prior `const ER_OLD = 1051` and a header ER_NEW with
\* the code 1051 give the marker, `const ER_OLD = 1051` and
\* `const ER_NEW = 1051` on consecutive lines.
C3_AliasesBeforeOwnDeclaration ==
    pc = "done" =>
        /\ file.lines = headerLines \o Declarations(errs, prior.lines)
        /\ \A i \in 1..Len(errs) :
              (/\ errs[i].name = NameER_NEW
               /\ errs[i].code = 1051
               /\ \E l \in 1..Len(prior.lines) : prior.lines[l] = PriorOld1051
               /\ \A l \in 1..Len(prior.lines) :
                      prior.lines[l] /= constLine(NameER_NEW, 1051))
              => \E l \in 1..Len(file.lines) :
                     Consecutive(file, l, DeprecatedMarker, PriorOld1051,
                                 constLine(NameER_NEW, 1051))

\* The rename with the reused code: the prior file is `const ER_OLD = 1051`,
\* the input declares the offset 1051 and the header ER_NEW.
C3_Witness ==
    /\ pc = "done"
    /\ prior = File(<<PriorOld1051>>)
    /\ Len(errs) = 1
    /\ errs[1].name = NameER_NEW
    /\ errs[1].code = 1051
    /\ file.lines = headerLines
           \o <<DeprecatedMarker, PriorOld1051, constLine(NameER_NEW, 1051)>>

----------------------------------------------------------------------------
(* C4 *)

\* C4: generating from an input with no prior file and generating again from
\* the same input with the first output as the prior file gives the same
\* output.
C4_RegenerationIsIdempotent ==
    (Len(gen) >= 2 /\ ~gen[1].prior.exists) => gen[2].output = gen[1].output

----------------------------------------------------------------------------
(* C5 *)

\* C5: when scanning the input ends in a fatal condition (a returned error
\* or a panic), constants.go is neither created nor truncated: it is as the
\* run found it, and nothing has been written.
C5_NoOutputAfterFatalScan ==
    pc \in {"error", "panic"} => (file = prior /\ gen = <<>>)

\* A prior constants.go exists, a header was scanned, and the run has ended
\* in an error of the escape decoder.
C5_Witness ==
    /\ pc = "error"
    /\ err.msg = "parse quote"
    /\ prior = File(<<PriorOld1051>>)
    /\ file = prior
    /\ Len(errs) > 0

----------------------------------------------------------------------------
(* C6 *)

\* C6: a message-continuation line scanned while the catalog is empty makes
\* the run return a format error that carries the line, as the other format
\* errors do; the last element of an empty record list is never accessed.
C6_ContinuationBeforeHeaderIsFormatError ==
    (/\ pos > 0
     /\ IsContinuationLine(stdin[pos])
     /\ HeadersIn(pos) = 0)
    => (pc = "error" /\ err.line = stdin[pos])

----------------------------------------------------------------------------
(* C7 *)

\* The value of the octal digit c.
OctalValue(c) == c - Ord("0")

\* The decoding of the escape's byte followed by the decoding of rest.
Then(byte, rest) ==
    IF rest.err = "nil"
    THEN [text |-> <<byte>> \o rest.text, err |-> "nil"]
    ELSE rest

\* C7: for an escape of a backslash and three octal digits d1 d2 d3,
\* parseQuoted emits the byte 64*d1 + 8*d2 + d3 and resumes decoding at the
\* character right after the third digit; decoding \101" gives the one byte
\* 65.
C7_ThreeDigitOctalEscape ==
    (/\ pc = "returned"
     /\ Len(arg) >= 4
     /\ arg[1] = Ord("\\")
     /\ \A i \in 2..4 : arg[i] \in OctalDigits)
    => ret = Then(64 * OctalValue(arg[2]) + 8 * OctalValue(arg[3])
                      + OctalValue(arg[4]),
                  parseQuoted(From(arg, 4)))

----------------------------------------------------------------------------
(* C8 *)

\* C8: an octal escape of fewer than three digits stops at the first
\* character that is no octal digit; that character is no part of the
\* escape's value and is decoded as an ordinary character; decoding \7x"
\* gives the byte 7 and the letter x.
C8_OctalEscapeStopsAtNonDigit ==
    /\ (/\ pc = "returned"
        /\ Len(arg) >= 3
        /\ arg[1] = Ord("\\")
        /\ arg[2] \in OctalDigits
        /\ arg[3] \notin OctalDigits)
       => ret = Then(OctalValue(arg[2]), parseQuoted(From(arg, 2)))
    /\ (/\ pc = "returned"
        /\ Len(arg) >= 4
        /\ arg[1] = Ord("\\")
        /\ arg[2] \in OctalDigits
        /\ arg[3] \in OctalDigits
        /\ arg[4] \notin OctalDigits)
       => ret = Then(8 * OctalValue(arg[2]) + OctalValue(arg[3]),
                     parseQuoted(From(arg, 3)))

----------------------------------------------------------------------------
(* C9 *)

\* The text of a continuation line after its language token.
AfterLanguageToken(line) ==
    LET l == TrimLeft(line, SpaceTab)
        i == IndexAny(l, SpaceTab)
    IN  IF i < 0 THEN <<>> ELSE TrimLeft(From(l, i), SpaceTab)

RECURSIVE HasClosingQuote(_)
\* The text holds a double quote that no backslash escapes.
HasClosingQuote(s) ==
    IF s = <<>> THEN FALSE
    ELSE IF s[1] = Ord("\"") THEN TRUE
    ELSE IF s[1] = Ord("\\") THEN HasClosingQuote(From(s, 2))
    ELSE HasClosingQuote(Tail(s))

\* The continuation line has no opening quote, or no closing one.
OpenLiteral(line) ==
    /\ IsContinuationLine(line)
    /\ LET t == AfterLanguageToken(line)
       IN  ~HasPrefix(t, <<Ord("\"")>>) \/ ~HasClosingQuote(Tail(t))

RECURSIVE MessageCount(_)
\* The number of messages of the records.
MessageCount(records) ==
    IF records = <<>> THEN 0
    ELSE Len(Head(records).messages) + MessageCount(Tail(records))

----------------------------------------------------------------------------
(* C10 *)

\* The line is an offset or default-language declaration with a token after
\* its argument.
TrailingToken(line) ==
    /\ HasPrefix(line, KwStartErrorNumber) \/ HasPrefix(line, KwDefaultLanguage)
    /\ Len(Fields(line)) >= 3

\* C10: a start-error-number or default-language line with a token after its
\* argument makes the run return an "invalid format" error that carries the
\* raw line; the line changes neither the offset, nor the running counter,
\* nor the default language, and no later line is processed.
C10_TrailingTokenIsInvalidFormat ==
    [][/\ (pc = "scan" /\ pos' = pos + 1 /\ TrailingToken(stdin'[pos'])) =>
              /\ pc' = "error"
              /\ err' = [msg |-> "invalid format", line |-> stdin'[pos'],
                         cause |-> "nil"]
              /\ UNCHANGED <<errorCodeOffset, rCount, defaultLanguage>>
       /\ pc = "error" =>
              UNCHANGED <<pc, pos, errorCodeOffset, rCount, defaultLanguage,
                          errs, file>>]_vars

\* The offset 1051 and a header were scanned, then an offset line with a
\* trailing token: the run has ended in the error, offset and count kept.
C10_Witness ==
    /\ pos = 3
    /\ stdin[1] = LineStart1051
    /\ IsHeaderLine(stdin[2])
    /\ stdin[3] = LineStartExtra
    /\ pc = "error"
    /\ err.msg = "invalid format"
    /\ err.line = LineStartExtra
    /\ errorCodeOffset = 1051
    /\ rCount = 1

----------------------------------------------------------------------------
(* C11 *)

\* The line is a declaration `const <NAME> = <integer>`: four tokens
\* separated by single spaces, the last one a decimal number.
WellFormedDeclaration(line) ==
    LET t == Split(line, Ord(" "))
    IN  /\ Len(t) = 4
        /\ t[1] = WordConst
        /\ t[2] /= <<>>
        /\ t[3] = WordEquals
        /\ t[4] /= <<>>
        /\ \A i \in 1..Len(t[4]) : t[4][i] \in Digits

\* C11: the reader of the prior constants.go never fails on the content of a
\* line: a line that is no well-formed `const <NAME> = <integer>`, also one
\* that begins with `const ` and has fewer than four tokens or a value that
\* is no integer, is skipped: it adds no entry to the name->code or the
\* code->names map and does not abort the run.
C11_MalformedPriorLinesAreSkipped ==
    /\ pc /= "panic"
    /\ pc \in {"create", "header", "emit", "done"} =>
          /\ \A n \in DOMAIN cs.byName :
                \E l \in 1..Len(prior.lines) :
                    /\ WellFormedDeclaration(prior.lines[l])
                    /\ prior.lines[l] = constLine(n, cs.byName[n])
          /\ \A c \in DOMAIN cs.byCode : \A i \in 1..Len(cs.byCode[c]) :
                \E l \in 1..Len(prior.lines) :
                    /\ WellFormedDeclaration(prior.lines[l])
                    /\ prior.lines[l] = constLine(cs.byCode[c][i], c)

----------------------------------------------------------------------------
(* C12 *)

\* The line is of none of the kinds the scanner recognizes.
Unrecognized(line) ==
    /\ ~HasPrefix(line, KwLanguage)
    /\ ~HasPrefix(line, KwStartErrorNumber)
    /\ ~HasPrefix(line, KwDefaultLanguage)
    /\ ~IsContinuationLine(line)
    /\ ~IsHeaderLine(line)
    /\ ~HasPrefix(line, <<Ord("#")>>)
    /\ line /= <<>>
    /\ ~HasPrefix(line, KwReservedErrorSection)

\* C12: a line of none of the recognized kinds makes the run return an
\* "unknown format" error that carries the line; it is never skipped, and no
\* line after it is scanned, so none changes the catalog.
C12_UnrecognizedLineIsUnknownFormat ==
    \A i \in 1..pos :
        Unrecognized(stdin[i]) =>
            /\ i = pos
            /\ pc = "error"
            /\ err = [msg |-> "unknown format", line |-> stdin[i],
                      cause |-> "nil"]
            /\ Len(errs) = HeadersIn(i - 1)

\* Two headers, then a line that resembles a header without being one.
C12_Witness ==
    /\ pos = 3
    /\ IsHeaderLine(stdin[1])
    /\ IsHeaderLine(stdin[2])
    /\ stdin[3] = LineUnknownER
    /\ pc = "error"
    /\ err.msg = "unknown format"
    /\ err.line = LineUnknownER
    /\ Len(errs) = 2

----------------------------------------------------------------------------
(* C13 *)

\* The indices of the error-header lines of the input, in input order.
RECURSIVE HeaderIndices(_)
HeaderIndices(n) ==
    IF n = 0 THEN <<>>
    ELSE HeaderIndices(n - 1) \o (IF IsHeaderLine(stdin[n]) THEN <<n>> ELSE <<>>)

\* C13: when no prior constants.go exists, the output holds, after its
\* header, exactly one declaration per error-header line of the input, in
\* input order, each with the name of the line and the code assigned to its
\* record, and no deprecation marker.
C13_FirstGenerationDeclaresEachHeaderOnce ==
    (pc = "done" /\ ~prior.exists) =>
        LET h == HeaderIndices(pos)
        IN  /\ Len(errs) = Len(h)
            /\ file.lines = headerLines
                   \o [i \in 1..Len(h) |->
                          constLine(Fields(stdin[h[i]])[1], errs[i].code)]
            /\ \A l \in 1..Len(file.lines) : file.lines[l] /= DeprecatedMarker

\* No prior file; a header, a comment and an obsolete header give two
\* declarations.
C13_Witness ==
    /\ pc = "done"
    /\ ~prior.exists
    /\ stdin = <<LineER_NEW, LineComment, LineOBSOLETE_ER>>
    /\ Len(file.lines) = Len(headerLines) + 2
    /\ file.lines[Len(headerLines) + 1] = constLine(NameER_NEW, 1000)
    /\ file.lines[Len(headerLines) + 2]
           = constLine(Fields(LineOBSOLETE_ER)[1], 1001)

----------------------------------------------------------------------------
(* C15 *)

\* The line is a language declaration, a default-language declaration, a
\* comment, a blank line or a reserved-section marker.
NeutralLine(line) ==
    \/ HasPrefix(line, KwLanguage)
    \/ HasPrefix(line, KwDefaultLanguage)
    \/ HasPrefix(line, <<Ord("#")>>)
    \/ line = <<>>
    \/ HasPrefix(line, KwReservedErrorSection)

\* C15: scanning a language, default-language, comment, blank or
\* reserved-section line leaves the offset, the running counter and the
\* catalog (the records, their codes and their messages) as they were.
C15_NeutralLinesKeepNumberingAndCatalog ==
    [][(pc = "scan" /\ pos' = pos + 1 /\ NeutralLine(stdin'[pos'])) =>
           UNCHANGED <<errorCodeOffset, rCount, errs>>]_vars

\* A header, a comment, and a header that gets the next code.
C15_Witness ==
    /\ pos = 3
    /\ stdin = <<LineER_NEW, LineComment, LineWARN>>
    /\ Len(errs) = 2
    /\ errs[2].code = 1001
    /\ rCount = 2

----------------------------------------------------------------------------
(* C14 *)

\* A continuation line with a language token and a quoted literal that an
\* unescaped double quote closes.
ValidContinuation(line) ==
    /\ IsContinuationLine(line)
    /\ ~OpenLiteral(line)

\* The language token of a continuation line.
LanguageToken(line) == Fields(line)[1]

\* C14: a valid continuation line scanned after a header appends exactly one
\* message, with the line's language token, at the end of the message list of
\* the last record, and leaves every other record, the order of the records,
\* every record's code, the offset and the running counter as they were.
C14_ContinuationAppendsOneMessage ==
    [][(/\ pc = "scan"
        /\ pos' = pos + 1
        /\ Len(errs) > 0
        /\ ValidContinuation(stdin'[pos']))
       => /\ Len(errs') = Len(errs)
          /\ \A i \in 1..(Len(errs) - 1) : errs'[i] = errs[i]
          /\ LET last == errs[Len(errs)]
                 last2 == errs'[Len(errs)]
             IN  /\ last2.name = last.name
                 /\ last2.code = last.code
                 /\ Len(last2.messages) = Len(last.messages) + 1
                 /\ \A m \in 1..Len(last.messages) :
                        last2.messages[m] = last.messages[m]
                 /\ last2.messages[Len(last2.messages)].langShortName
                        = LanguageToken(stdin'[pos'])
          /\ UNCHANGED <<errorCodeOffset, rCount>>]_vars

----------------------------------------------------------------------------
(* C16 *)

\* C16: parseLanguage returns on every line that begins with "language": the
\* run is never left inside its loop.
C16_ParseLanguageTerminates ==
    \A i \in 1..pos :
        HasPrefix(stdin[i], KwLanguage) =>
            /\ parseLanguage(stdin[i]).returns
            /\ i = pos => pc /= "hang"

----------------------------------------------------------------------------
(* C17 *)

\* The number of lines that declare the name: "const name = ..." lines.
TimesDeclared(lines, name) ==
    Cardinality({l \in 1..Len(lines) :
                    /\ HasPrefix(lines[l], PrefixConst)
                    /\ Len(Split(lines[l], Ord(" "))) >= 2
                    /\ Split(lines[l], Ord(" "))[2] = name})

\* C17: when the records of the input have pairwise distinct names and the
\* prior file declares each name at most once, the output declares each name
\* at most once.
C17_EachNameDeclaredAtMostOnce ==
    (/\ pc = "done"
     /\ \A i, j \in 1..Len(errs) : errs[i].name = errs[j].name => i = j
     /\ \A n \in Names : TimesDeclared(prior.lines, n) <= 1)
    => \A n \in Names : TimesDeclared(file.lines, n) <= 1

----------------------------------------------------------------------------
(* C18 *)

\* C18: for an input whose records have pairwise distinct codes, the output
\* generated with the previous output as prior file is the previous output,
\* whatever the prior file of the first generation was.
C18_RegenerationFixedPointAfterOneStep ==
    (/\ pc = "done"
     /\ Len(gen) >= 2
     /\ \A i, j \in 1..Len(errs) : errs[i].code = errs[j].code => i = j)
    => /\ gen[Len(gen)].prior = gen[Len(gen) - 1].output
       /\ gen[Len(gen)].output = gen[Len(gen) - 1].output

\* The first generation read a prior file that declares ER_OLD = 1051 and
\* wrote ER_OLD as an alias of ER_NEW; the second generation wrote the same.
C18_Witness ==
    /\ pc = "done"
    /\ Len(gen) = 2
    /\ gen[1].prior = File(<<PriorOld1051>>)
    /\ stdin = <<LineStart1051, LineER_NEW>>
    /\ gen[1].output = File(headerLines \o <<DeprecatedMarker,
                                             constLine(NameER_OLD, 1051),
                                             constLine(NameER_NEW, 1051)>>)
    /\ gen[2].output = gen[1].output

====
